---------------------------- MODULE Spec2Model ----------------------------
(***************************************************************************)
(* causalpy/pymc_models.py: the ModelBuilder lifecycle (build_model, fit,  *)
(* predict, score) and its three concrete classes.                         *)
(*                                                                         *)
(* A model instance is a record `self`: its class, the attributes that     *)
(* __init__ sets (idata, sample_kwargs) and the part of the inherited      *)
(* pm.Model state the methods read and write (the registered variable      *)
(* names, the coordinates, the values bound to the data containers).       *)
(* The inference library is the environment: a sampling call either        *)
(* returns an InferenceData holding fresh draws or raises, and which of    *)
(* the two happens is an input of the call (`fail`).  Every draw carries   *)
(* the number of the sampling call that produced it, so that "the draws    *)
(* of this call" and "the draws stored earlier" are different values.      *)
(***************************************************************************)
EXTENDS Integers, Sequences, FiniteSets

\* Bounds of the model.
NumX     == 2      \* distinct design matrices X the caller may pass
MaxDraws == 4      \* a method is offered while fewer sampling calls have returned

VARIABLES self,      \* the model instance
          last,      \* the most recent method call: its arguments and outcome
          fit_called,\* whether fit was ever called on the instance
          given,     \* the sample_kwargs argument given to the constructor
          twin,      \* a second instance, driven beside `self` (SpecPair only)
          twinLast   \* the most recent method call on `twin`

vars == <<self, last, fit_called, given, twin, twinLast>>

-----------------------------------------------------------------------------
(* Values *)

Classes == {"ModelBuilder", "WeightedSumFitter", "LinearRegression",
            "InstrumentalVariableRegression"}

XSet == 1..NumX

\* Outcomes y: two-dimensional arrays, a sequence of rows.
YSet == { << <<1>>, <<2>> >>, << <<3, 4>>, <<5, 6>> >> }

\* A dictionary is a set of <<key, value>> pairs.
EmptyDict == {}
KwargsSet == { EmptyDict, {<<"chains", 2>>, <<"draws", 2>>} }

\* An Optional argument: {} is None, {v} is the value v.
NoneArg == {}
OptKwargs == {NoneArg} \cup { {k} : k \in KwargsSet }

\* Coordinates given by the caller: None, or the dimension names.
CoordsSet == { {}, {"obs_ind", "coeffs"} }
IVCoords  == {"instruments", "covariates"}

\* The instruments Z and the treatment t of InstrumentalVariableRegression.
ZSet == { 1 }
TSet == { << <<0>>, <<1>> >> }

\* The priors dictionary of InstrumentalVariableRegression, as documented.
PriorsSet == { [mus |-> <<0, 0>>, sigmas |-> <<1, 1>>, eta |-> 2, lkj_sd |-> 2] }

NoneValue == [kind |-> "None", groups |-> {}]

\* One group of an InferenceData: the sampling call that drew it, the value
\* bound to the "X" container when it was drawn, the posterior draw it was
\* computed from, the sampled variables and the sampler's keyword arguments.
Group(name, draw, X, post, vs, kw) ==
    [name |-> name, draw |-> draw, X |-> X, post |-> post, vars |-> vs, kw |-> kw]

InferenceData(gs) == [kind |-> "InferenceData", groups |-> gs]

GroupNames(idata) == { g.name : g \in idata.groups }

TheGroup(idata, name) == CHOOSE g \in idata.groups : g.name = name

\* y[:, 0]
RECURSIVE FirstColumn(_)
FirstColumn(y) ==
    IF y = << >> THEN << >> ELSE <<Head(y)[1]>> \o FirstColumn(Tail(y))

\* y.flatten()
RECURSIVE Flatten(_)
Flatten(y) ==
    IF y = << >> THEN << >> ELSE Head(y) \o Flatten(Tail(y))

-----------------------------------------------------------------------------
(* The pm.Model state that the methods use.  A frame [self, exc] threads   *)
(* the instance through the statements of a `with self:` block; once exc   *)
(* is set, the remaining statements do not run.                            *)

Frame(s) == [self |-> s, exc |-> ""]

\* self.add_coords(coords): None adds nothing.
add_coords(fr, coords) ==
    IF fr.exc # "" THEN fr
    ELSE [fr EXCEPT !.self.coords = @ \cup coords]

\* Registering a name the model already holds raises ValueError.
add_named_variable(fr, name) ==
    IF fr.exc # "" THEN fr
    ELSE IF name \in fr.self.named_vars THEN [fr EXCEPT !.exc = "ValueError"]
    ELSE [fr EXCEPT !.self.named_vars = @ \cup {name}]

\* pm.MutableData(name, value, dims=...): a named data container.
MutableDataX(fr, value, dims) ==
    LET r == add_named_variable(fr, "X")
    IN IF r.exc # "" THEN r
       ELSE [r EXCEPT !.self.data.X = value, !.self.coords = @ \cup dims]

MutableDataY(fr, value, dims) ==
    LET r == add_named_variable(fr, "y")
    IN IF r.exc # "" THEN r
       ELSE [r EXCEPT !.self.data.y = value, !.self.coords = @ \cup dims]

\* An observed random variable.
Observed(fr, name) ==
    LET r == add_named_variable(fr, name)
    IN IF r.exc # "" THEN r ELSE [r EXCEPT !.self.observed = @ \cup {name}]

\* A set_data that creates the container it does not find.
set_data_creating(fr, X) ==
    IF fr.exc # "" THEN fr
    ELSE [fr EXCEPT !.self.data.X = X]

\* pm.set_data({"X": X}): KeyError when the model holds no variable "X".
set_data(fr, X) ==
    IF fr.exc # "" THEN fr
    ELSE IF "X" \notin fr.self.named_vars THEN [fr EXCEPT !.exc = "KeyError"]
    ELSE [fr EXCEPT !.self.data.X = X]

\* The groups every sampling call returns beside its draws.
DataGroups(s, d) ==
    {Group("observed_data", d, 0, 0, s.observed, EmptyDict)}
    \cup (IF "X" \in s.named_vars
          THEN {Group("constant_data", d, s.data.X, 0, {"X", "y"}, EmptyDict)}
          ELSE {})

Returned(s, d, gs) ==
    [self |-> [s EXCEPT !.draws = d], val |-> InferenceData(gs), exc |-> ""]

Raised(s, e) == [self |-> s, val |-> NoneValue, exc |-> e]

\* pm.sample(**kwargs)
pm_sample(s, kwargs, fail) ==
    IF fail = "sample" THEN Raised(s, "SamplingError")
    ELSE LET d == s.draws + 1
         IN Returned(s, d,
                {Group("posterior", d, s.data.X, 0,
                       s.named_vars \ ({"X", "y"} \cup s.observed), kwargs),
                 Group("sample_stats", d, 0, 0, {}, kwargs)}
                \cup DataGroups(s, d))

\* pm.sample_prior_predictive()
pm_sample_prior_predictive(s, fail) ==
    IF fail = "sample_prior_predictive" THEN Raised(s, "SamplingError")
    ELSE LET d == s.draws + 1
         IN Returned(s, d,
                {Group("prior", d, s.data.X, 0,
                       s.named_vars \ ({"X", "y"} \cup s.observed), EmptyDict),
                 Group("prior_predictive", d, s.data.X, 0, s.observed, EmptyDict)}
                \cup DataGroups(s, d))

\* pm.sample_posterior_predictive(trace, var_names=...): the trace must hold
\* a posterior and every name asked for must be a variable of the model.
pm_sample_posterior_predictive(s, trace, var_names, fail) ==
    IF trace.kind = "None" \/ "posterior" \notin GroupNames(trace)
    THEN Raised(s, "TypeError")
    ELSE IF ~(var_names \subseteq s.named_vars) THEN Raised(s, "KeyError")
    ELSE IF fail = "sample_posterior_predictive" THEN Raised(s, "SamplingError")
    ELSE LET d == s.draws + 1
         IN Returned(s, d,
                {Group("posterior_predictive", d, s.data.X,
                       TheGroup(trace, "posterior").draw, var_names, EmptyDict)}
                \cup DataGroups(s, d))

\* InferenceData.extend(other): the groups of other that self lacks are added.
extend(idata, other) ==
    InferenceData(idata.groups \cup
                  { g \in other.groups : g.name \notin GroupNames(idata) })

-----------------------------------------------------------------------------
(* The outcome of a method call: the instance afterwards, the value        *)
(* returned, the exception raised ("" for none) and the steps the call ran,*)
(* each with the idata the instance held when the step ended.              *)

Ev(step, s) == [step |-> step, idata |-> s.idata]

\* ModelBuilder.__init__
ModelBuilder_init(cls, sample_kwargs) ==
    [cls |-> cls,
     idata |-> NoneValue,
     sample_kwargs |-> IF sample_kwargs # NoneArg
                       THEN CHOOSE k \in sample_kwargs : TRUE
                       ELSE EmptyDict,
     named_vars |-> {}, observed |-> {}, coords |-> {},
     data |-> [X |-> 0, y |-> << >>],
     draws |-> 0]

\* A base build_model that declares nothing and returns.
ModelBuilder_build_model_empty(s, X, y, coords) == Frame(s)

\* ModelBuilder.build_model
ModelBuilder_build_model(s, X, y, coords) ==
    [Frame(s) EXCEPT !.exc = "NotImplementedError"]

\* WeightedSumFitter.build_model
WeightedSumFitter_build_model(s, X, y, coords) ==
    LET c     == add_coords(Frame(s), coords)
        X_    == MutableDataX(c, X, {"obs_ind", "coeffs"})
        y_    == MutableDataY(X_, FirstColumn(y), {"obs_ind"})
        beta  == add_named_variable(y_, "beta")
        sigma == add_named_variable(beta, "sigma")
        mu    == add_named_variable(sigma, "mu")
    IN Observed(mu, "y_hat")

\* LinearRegression.build_model
LinearRegression_build_model(s, X, y, coords) ==
    LET c     == add_coords(Frame(s), coords)
        X_    == MutableDataX(c, X, {"obs_ind", "coeffs"})
        y_    == MutableDataY(X_, FirstColumn(y), {"obs_ind"})
        beta  == add_named_variable(y_, "beta")
        sigma == add_named_variable(beta, "sigma")
        mu    == add_named_variable(sigma, "mu")
    IN Observed(mu, "y_hat")

\* InstrumentalVariableRegression.build_model: X, Z, y and t enter the graph
\* as constants; no data container is registered.
IVR_build_model(s, X, Z, y, t, coords, priors) ==
    LET c      == add_coords(Frame(s), coords)
        beta_t == add_named_variable(c, "beta_t")
        beta_z == add_named_variable(beta_t, "beta_z")
        chol   == add_named_variable(beta_z, "chol_cov")
        cov    == add_named_variable(chol, "cov")
        mu_y   == add_named_variable(cov, "mu_y")
        mu_t   == add_named_variable(mu_y, "mu_t")
        mu     == add_named_variable(mu_t, "mu")
    IN Observed(mu, "likelihood")

\* self.build_model(X, y, coords) in ModelBuilder.fit: the method of the
\* instance's class (InstrumentalVariableRegression overrides fit and calls
\* its own build_model there).
build_model(s, X, y, coords) ==
    CASE s.cls = "WeightedSumFitter" -> WeightedSumFitter_build_model(s, X, y, coords)
      [] s.cls = "LinearRegression"  -> LinearRegression_build_model(s, X, y, coords)
      [] OTHER                       -> ModelBuilder_build_model(s, X, y, coords)

\* A call in progress: the instance, the exception raised so far ("" for
\* none), the value of the last library call and the steps run.  A statement
\* does not run once an exception is raised.
Enter(s) == [self |-> s, ret |-> NoneValue, exc |-> "", trace |-> << >>]

\* self.build_model(...), as the first statement of a fit.
Stmt_build_model(fr, b) ==
    [fr EXCEPT !.self = b.self, !.exc = b.exc,
               !.trace = Append(@, Ev("build_model", b.self))]

\* The outcome r of a library call, taken into the call in progress by
\* `self.idata = r`.
Assign_idata(fr, step, r) ==
    IF r.exc # ""
    THEN [fr EXCEPT !.exc = r.exc, !.trace = Append(@, Ev(step, fr.self))]
    ELSE [fr EXCEPT !.self = [r.self EXCEPT !.idata = r.val],
                    !.trace = Append(@, Ev(step, [idata |-> r.val]))]

\* An extend that rolls idata back to None when the library call raises.
Extend_idata_rollback(fr, step, r) ==
    IF r.exc # ""
    THEN [fr EXCEPT !.exc = r.exc, !.self.idata = NoneValue,
                    !.trace = Append(@, Ev(step, [idata |-> NoneValue]))]
    ELSE [fr EXCEPT !.self = [r.self EXCEPT !.idata = extend(@, r.val)],
                    !.trace = Append(@, Ev(step, [idata |-> extend(fr.self.idata, r.val)]))]

\* The same, by `self.idata.extend(r)`.
Extend_idata(fr, step, r) ==
    IF r.exc # ""
    THEN [fr EXCEPT !.exc = r.exc, !.trace = Append(@, Ev(step, fr.self))]
    ELSE [fr EXCEPT !.self = [r.self EXCEPT !.idata = extend(@, r.val)],
                    !.trace = Append(@, Ev(step, [idata |-> extend(fr.self.idata, r.val)]))]

\* self.idata = pm.sample(**self.sample_kwargs)
Stmt_sample(fr, fail) ==
    IF fr.exc # "" THEN fr
    ELSE Assign_idata(fr, "sample",
                      pm_sample(fr.self, fr.self.sample_kwargs, fail))

\* self.idata.extend(pm.sample_prior_predictive())
Stmt_prior_predictive(fr, fail) ==
    IF fr.exc # "" THEN fr
    ELSE Extend_idata(fr, "sample_prior_predictive",
                      pm_sample_prior_predictive(fr.self, fail))

\* self.idata.extend(pm.sample_posterior_predictive(self.idata, progressbar=False))
Stmt_posterior_predictive(fr, fail) ==
    IF fr.exc # "" THEN fr
    ELSE Extend_idata(fr, "sample_posterior_predictive",
                      pm_sample_posterior_predictive(fr.self, fr.self.idata,
                                                     fr.self.observed, fail))

\* return self.idata
Stmt_return_idata(fr) ==
    IF fr.exc # "" THEN fr ELSE [fr EXCEPT !.ret = fr.self.idata]

\* A fit that leaves the prior-predictive samples out.
ModelBuilder_fit_no_prior(s, X, y, coords, fail) ==
    Stmt_return_idata(
      Stmt_posterior_predictive(
        Stmt_sample(
          Stmt_build_model(Enter(s), build_model(s, X, y, coords)),
          fail),
        fail))

\* ModelBuilder.fit
ModelBuilder_fit(s, X, y, coords, fail) ==
    Stmt_return_idata(
      Stmt_posterior_predictive(
        Stmt_prior_predictive(
          Stmt_sample(
            Stmt_build_model(Enter(s), build_model(s, X, y, coords)),
            fail),
          fail),
        fail))

\* A fit that extends idata with the posterior-predictive samples before the
\* prior-predictive ones.
IVR_fit_reordered(s, X, Z, y, t, coords, priors, fail) ==
    Stmt_return_idata(
      Stmt_prior_predictive(
        Stmt_posterior_predictive(
          Stmt_sample(
            Stmt_build_model(Enter(s), IVR_build_model(s, X, Z, y, t, coords, priors)),
            fail),
          fail),
        fail))

\* InstrumentalVariableRegression.fit
IVR_fit(s, X, Z, y, t, coords, priors, fail) ==
    Stmt_return_idata(
      Stmt_posterior_predictive(
        Stmt_prior_predictive(
          Stmt_sample(
            Stmt_build_model(Enter(s), IVR_build_model(s, X, Z, y, t, coords, priors)),
            fail),
          fail),
        fail))

\* ModelBuilder._data_setter
ModelBuilder_data_setter(s, X) == set_data(Frame(s), X)

\* self._data_setter(X), as the first statement of predict.
Stmt_data_setter(fr, b) ==
    [fr EXCEPT !.self = b.self, !.exc = b.exc,
               !.trace = Append(@, Ev("set_data", b.self))]

\* A predict that also merges its samples into self.idata.
Return_post_pred_stored(fr, r) ==
    [fr EXCEPT !.self = IF r.exc # "" THEN r.self
                        ELSE [r.self EXCEPT !.idata = InferenceData(@.groups \cup r.val.groups)],
               !.exc = r.exc, !.ret = r.val,
               !.trace = Append(@, Ev("sample_posterior_predictive", r.self))]

\* post_pred = pm.sample_posterior_predictive(self.idata,
\*     var_names=["y_hat", "mu"], progressbar=False); return post_pred
Return_post_pred(fr, r) ==
    [fr EXCEPT !.self = r.self, !.exc = r.exc, !.ret = r.val,
               !.trace = Append(@, Ev("sample_posterior_predictive", r.self))]

Stmt_post_pred(fr, fail) ==
    IF fr.exc # "" THEN fr
    ELSE Return_post_pred(fr,
             pm_sample_posterior_predictive(fr.self, fr.self.idata,
                                            {"y_hat", "mu"}, fail))

Stmt_data_setter_after(fr, X) ==
    IF fr.exc # "" THEN fr
    ELSE [fr EXCEPT !.self = set_data(Frame(fr.self), X).self,
                    !.exc = set_data(Frame(fr.self), X).exc,
                    !.trace = Append(@, Ev("set_data", fr.self))]

\* A predict that draws the samples first and binds X afterwards.
ModelBuilder_predict_late_binding(s, X, fail) ==
    Stmt_data_setter_after(Stmt_post_pred(Enter(s), fail), X)

\* ModelBuilder.predict
ModelBuilder_predict(s, X, fail) ==
    Stmt_post_pred(Stmt_data_setter(Enter(s), ModelBuilder_data_setter(s, X)), fail)

\* az.extract(yhat, group="posterior_predictive", var_names="y_hat") and
\* r2_score(y_true, y_pred): the score is a function of the flattened
\* outcome and of the draws it is given.
r2_score(y_true, y_pred) ==
    [kind |-> "r2", groups |-> {y_pred}, y_true |-> y_true]

\* yhat = az.extract(yhat, ...); return r2_score(y.flatten(), yhat)
Stmt_r2_score(fr, y) ==
    IF fr.exc # "" THEN fr
    ELSE [fr EXCEPT !.ret = r2_score(Flatten(y),
                                     TheGroup(fr.ret, "posterior_predictive")),
                    !.trace = Append(@, Ev("r2_score", fr.self))]

\* A score computed from the posterior-predictive group that fit stored.
ModelBuilder_score_stored(s, X, y, fail) ==
    IF "posterior_predictive" \notin GroupNames(s.idata)
    THEN ModelBuilder_predict(s, X, fail)
    ELSE [Enter(s) EXCEPT !.ret = r2_score(Flatten(y),
                                           TheGroup(s.idata, "posterior_predictive")),
                          !.trace = <<Ev("r2_score", s)>>]

\* ModelBuilder.score
ModelBuilder_score(s, X, y, fail) ==
    Stmt_r2_score(ModelBuilder_predict(s, X, fail), y)

-----------------------------------------------------------------------------
(* The state machine: one instance, any sequence of fit, predict, score.   *)

FitFails     == {"none", "sample", "sample_prior_predictive",
                 "sample_posterior_predictive"}
PredictFails == {"none", "sample_posterior_predictive"}

NoCall == [op |-> "init", X |-> 0, y |-> << >>, fail |-> "none",
           ret |-> NoneValue, exc |-> "", trace |-> << >>]

Call(op, X, y, fail, r) ==
    [op |-> op, X |-> X, y |-> y, fail |-> fail,
     ret |-> r.ret, exc |-> r.exc, trace |-> r.trace]

Init ==
    /\ \E cls \in Classes, kw \in OptKwargs :
          /\ self = ModelBuilder_init(cls, kw)
          /\ given = kw
    /\ last = NoCall
    /\ fit_called = FALSE
    /\ twin = ModelBuilder_init("ModelBuilder", NoneArg)
    /\ twinLast = NoCall

\* fit(X, y, coords) on an instance that inherits ModelBuilder.fit.
Fit ==
    /\ self.cls # "InstrumentalVariableRegression"
    /\ self.draws < MaxDraws
    /\ \E X \in XSet, y \in YSet, coords \in CoordsSet, fail \in FitFails :
          LET r == ModelBuilder_fit(self, X, y, coords, fail)
          IN /\ self' = r.self
             /\ last' = Call("fit", X, y, fail, r)
    /\ fit_called' = TRUE
    /\ UNCHANGED <<given, twin, twinLast>>

\* fit(X, Z, y, t, coords, priors) on an InstrumentalVariableRegression.
FitIV ==
    /\ self.cls = "InstrumentalVariableRegression"
    /\ self.draws < MaxDraws
    /\ \E X \in XSet, Z \in ZSet, y \in YSet, t \in TSet, priors \in PriorsSet,
          fail \in FitFails :
          LET r == IVR_fit(self, X, Z, y, t, IVCoords, priors, fail)
          IN /\ self' = r.self
             /\ last' = Call("fit", X, y, fail, r)
    /\ fit_called' = TRUE
    /\ UNCHANGED <<given, twin, twinLast>>

Predict ==
    /\ self.draws < MaxDraws
    /\ \E X \in XSet, fail \in PredictFails :
          LET r == ModelBuilder_predict(self, X, fail)
          IN /\ self' = r.self
             /\ last' = Call("predict", X, << >>, fail, r)
    /\ UNCHANGED <<fit_called, given, twin, twinLast>>

Score ==
    /\ self.draws < MaxDraws
    /\ \E X \in XSet, y \in YSet, fail \in PredictFails :
          LET r == ModelBuilder_score(self, X, y, fail)
          IN /\ self' = r.self
             /\ last' = Call("score", X, y, fail, r)
    /\ UNCHANGED <<fit_called, given, twin, twinLast>>

Next == Fit \/ FitIV \/ Predict \/ Score

Spec == Init /\ [][Next]_vars

-----------------------------------------------------------------------------
(* Two instances side by side: an InstrumentalVariableRegression (`self`)  *)
(* and a WeightedSumFitter or LinearRegression (`twin`), constructed with  *)
(* the same sample_kwargs and fitted together, the library behaving the    *)
(* same way for both (the same `fail`).                                    *)

InitPair ==
    /\ \E cls \in {"WeightedSumFitter", "LinearRegression"}, kw \in OptKwargs :
          /\ self = ModelBuilder_init("InstrumentalVariableRegression", kw)
          /\ twin = ModelBuilder_init(cls, kw)
          /\ given = kw
    /\ last = NoCall
    /\ twinLast = NoCall
    /\ fit_called = FALSE

FitPair ==
    /\ self.draws < MaxDraws
    /\ \E X \in XSet, Z \in ZSet, y \in YSet, t \in TSet, priors \in PriorsSet,
          coords \in CoordsSet, fail \in FitFails :
          LET r == IVR_fit(self, X, Z, y, t, IVCoords, priors, fail)
              q == ModelBuilder_fit(twin, X, y, coords, fail)
          IN /\ self' = r.self
             /\ last' = Call("fit", X, y, fail, r)
             /\ twin' = q.self
             /\ twinLast' = Call("fit", X, y, fail, q)
    /\ fit_called' = TRUE
    /\ UNCHANGED given

NextPair == FitPair

SpecPair == InitPair /\ [][NextPair]_vars

-----------------------------------------------------------------------------
(* What two idata values of different model classes have in common: the    *)
(* groups drawn, the sampling call that drew each, the posterior a         *)
(* predictive group was computed from and the sampler's arguments.  The    *)
(* variable names and the data containers are the classes' own.            *)

Shape(idata) ==
    [kind   |-> idata.kind,
     groups |-> { [name |-> g.name, draw |-> g.draw, post |-> g.post, kw |-> g.kw] :
                  g \in { h \in idata.groups : h.name # "constant_data" } }]

StepsOf(tr) == [i \in 1..Len(tr) |-> tr[i].step]

IdatasOf(tr) == [i \in 1..Len(tr) |-> Shape(tr[i].idata)]

\* C5: InstrumentalVariableRegression.fit runs the same steps as
\* ModelBuilder.fit: fitted side by side under the same library outcomes, the
\* two instances run the same sequence of steps, hold idata of the same shape
\* after every step, raise the same exception or return idata of the same shape.
C5_SameControlFlow ==
    last.op = "fit" =>
        /\ twinLast.op = "fit"
        /\ StepsOf(last.trace) = StepsOf(twinLast.trace)
        /\ IdatasOf(last.trace) = IdatasOf(twinLast.trace)
        /\ last.exc = twinLast.exc
        /\ Shape(last.ret) = Shape(twinLast.ret)
        /\ Shape(self.idata) = Shape(twin.idata)
        /\ (last.exc = "" => last.ret = self.idata /\ twinLast.ret = twin.idata)

\* Both instances completed a fit: four steps each.
C5_Witness ==
    /\ last.op = "fit" /\ last.exc = "" /\ twinLast.exc = ""
    /\ self.cls = "InstrumentalVariableRegression"
    /\ twin.cls = "LinearRegression"
    /\ Len(last.trace) = 4 /\ Len(twinLast.trace) = 4
    /\ GroupNames(self.idata) \cap {"prior", "posterior_predictive"}
         = {"prior", "posterior_predictive"}

-----------------------------------------------------------------------------
(* Properties of the lifecycle.  `last` is the most recent call, so a       *)
(* state with last.op = "fit" is the state a fit call ended in, and a step  *)
(* that changes the state is a fit call exactly when last'.op = "fit".     *)

Sampled == {"posterior", "prior", "prior_predictive", "posterior_predictive"}

FitOrder == <<"build_model", "sample", "sample_prior_predictive",
              "sample_posterior_predictive">>

IsFitStep == last'.op = "fit"

\* The sample_kwargs attribute that the constructor argument stands for.
KwargsFor(arg) == IF arg = NoneArg THEN EmptyDict ELSE CHOOSE k \in arg : TRUE

\* C1: when fit on a WeightedSumFitter or LinearRegression returns normally,
\* idata is not None; it holds the posterior drawn in this call, extended with
\* the prior and prior-predictive samples and the posterior-predictive samples
\* of this call (computed from this call's posterior); fit returns that idata.
C1_FitPopulatesIdata ==
    (/\ last.op = "fit" /\ last.exc = ""
     /\ self.cls \in {"WeightedSumFitter", "LinearRegression"})
    => /\ self.idata # NoneValue
       /\ self.idata.kind = "InferenceData"
       /\ Sampled \subseteq GroupNames(self.idata)
       /\ \A g \in self.idata.groups : g.draw > self.draws - 3
       /\ TheGroup(self.idata, "posterior").draw = self.draws - 2
       /\ TheGroup(self.idata, "posterior").kw = self.sample_kwargs
       /\ TheGroup(self.idata, "prior").draw = self.draws - 1
       /\ TheGroup(self.idata, "prior_predictive").draw = self.draws - 1
       /\ TheGroup(self.idata, "posterior_predictive").draw = self.draws
       /\ TheGroup(self.idata, "posterior_predictive").post = self.draws - 2
       /\ last.ret = self.idata

C1_Witness ==
    /\ last.op = "fit" /\ last.exc = ""
    /\ self.cls = "WeightedSumFitter"
    /\ self.idata # NoneValue
    /\ self.draws = 3

\* C2: predict on an instance on which fit was never called raises KeyError
\* in the data re-binding step; no sampling call is made, nothing is returned
\* and idata is still None.
C2_PredictUnfitKeyError ==
    (last.op = "predict" /\ ~fit_called)
    => /\ last.exc = "KeyError"
       /\ StepsOf(last.trace) = <<"set_data">>
       /\ last.ret = NoneValue
       /\ self.idata = NoneValue
       /\ self.draws = 0
       /\ self.data.X = 0

C2_Witness ==
    /\ last.op = "predict" /\ ~fit_called
    /\ self.cls = "LinearRegression"
    /\ last.exc = "KeyError"

\* C3 (as claimed): once fit has returned normally, predict on an instance of
\* any concrete class succeeds (the library not failing) and returns samples
\* of "y_hat" and "mu"; every concrete build_model registers "X", "y_hat", "mu".
C3_PredictWorksForEveryClass ==
    (/\ self.cls # "ModelBuilder"
     /\ Sampled \subseteq GroupNames(self.idata)
     /\ last.op = "predict" /\ last.fail = "none")
    => /\ {"X", "y_hat", "mu"} \subseteq self.named_vars
       /\ last.exc = ""
       /\ TheGroup(last.ret, "posterior_predictive").vars = {"y_hat", "mu"}

\* C4: fit on the base class raises NotImplementedError from build_model: no
\* sampling step runs, nothing is returned and idata keeps its value.
C4_BaseFitNotImplemented ==
    [][ (IsFitStep /\ self.cls = "ModelBuilder")
        => /\ last'.exc = "NotImplementedError"
           /\ StepsOf(last'.trace) = <<"build_model">>
           /\ last'.ret = NoneValue
           /\ self'.idata = self.idata
           /\ self'.idata = NoneValue
           /\ self'.draws = self.draws ]_vars

C4_Witness ==
    /\ self.cls = "ModelBuilder"
    /\ last.op = "fit" /\ fit_called
    /\ last.exc = "NotImplementedError"
    /\ self.idata = NoneValue

\* C6 (as claimed): every fit call, the first or a repeated one, runs
\* build_model, posterior sampling, prior-predictive sampling and
\* posterior-predictive sampling, in this order, each exactly once (the
\* sampling library not failing).
C6_EveryFitRunsAllSteps ==
    (/\ last.op = "fit" /\ last.fail = "none"
     /\ self.cls # "ModelBuilder")
    => StepsOf(last.trace) = FitOrder

\* C7: on a WeightedSumFitter or LinearRegression whose model holds "X",
\* predict and score bind "X" to their argument before they sample; the
\* samples are drawn under that binding from the posterior idata holds; "y"
\* and idata are not touched; nothing restores "X" afterwards (a later fit
\* does not either).
C7_Rebinding ==
    [][ (/\ self.cls \in {"WeightedSumFitter", "LinearRegression"}
         /\ "X" \in self.named_vars)
        => /\ ~IsFitStep
              => /\ last'.op \in {"predict", "score"}
                 /\ self'.data.X = last'.X
                 /\ self'.data.y = self.data.y
                 /\ self'.named_vars = self.named_vars
                 /\ last'.trace[1].step = "set_data"
                 /\ \A i \in 2..Len(last'.trace) : last'.trace[i].step # "set_data"
                 /\ (last'.fail = "none" /\ self.idata # NoneValue) => last'.exc = ""
                 /\ last'.exc = ""
                      => \E g \in last'.ret.groups :
                           /\ g.name = "posterior_predictive"
                           /\ g.X = last'.X
                           /\ g.draw = self.draws + 1
                           /\ g.post = TheGroup(self.idata, "posterior").draw
           /\ IsFitStep => self'.data = self.data ]_vars

\* X was re-bound by score: it differs from the training X that the
\* constant_data of fit recorded, and "y" is not the y given to score.
C7_Witness ==
    /\ last.op = "score" /\ last.exc = ""
    /\ self.cls = "WeightedSumFitter"
    /\ "constant_data" \in GroupNames(self.idata)
    /\ TheGroup(self.idata, "constant_data").X # self.data.X
    /\ self.data.X = last.X
    /\ self.data.y # FirstColumn(last.y)

\* C8: score(X, y) does what one predict(X) does to the instance and fails
\* as it fails (KeyError on a never-fitted instance); when predict succeeds
\* the score is computed from the flattened y and the "y_hat" draws of that
\* prediction, which are not draws held in idata.
C8_ScoreUsesFreshPrediction ==
    [][ last'.op = "score"
        => LET pr == ModelBuilder_predict(self, last'.X, last'.fail)
           IN /\ self' = pr.self
              /\ last'.exc = pr.exc
              /\ Cardinality({ i \in 1..Len(last'.trace) :
                                last'.trace[i].step = "set_data" }) = 1
              /\ Cardinality({ i \in 1..Len(last'.trace) :
                                last'.trace[i].step = "sample_posterior_predictive" }) <= 1
              /\ pr.exc # "" => last'.ret = NoneValue /\ last'.trace = pr.trace
              /\ ~fit_called => last'.exc = "KeyError" /\ StepsOf(last'.trace) = <<"set_data">>
              /\ pr.exc = ""
                   => /\ last'.ret.kind = "r2"
                      /\ last'.ret.y_true = Flatten(last'.y)
                      /\ Len(last'.ret.y_true) = Len(last'.y) * Len(last'.y[1])
                      /\ last'.ret.groups = {TheGroup(pr.ret, "posterior_predictive")}
                      /\ \A g \in last'.ret.groups :
                            /\ g.draw = self.draws + 1
                            /\ "y_hat" \in g.vars
                            /\ g \notin self'.idata.groups
                      /\ StepsOf(last'.trace) =
                            <<"set_data", "sample_posterior_predictive", "r2_score">> ]_vars

C8_Witness ==
    /\ last.op = "score" /\ last.exc = ""
    /\ Len(last.y[1]) = 2
    /\ "posterior_predictive" \in GroupNames(self.idata)
    /\ last.ret.kind = "r2"

\* C9: when a sampling step of fit raises, fit raises that exception, the
\* step is not run again, no later step runs and idata keeps what had been
\* assigned: its previous value if posterior sampling raised, the new
\* posterior without the later groups if a predictive step raised.
C9_NoRetryNoRollback ==
    [][ (/\ IsFitStep
         /\ last'.fail # "none"
         /\ Len(last'.trace) > 1)
        => LET k == CHOOSE i \in 1..4 : FitOrder[i] = last'.fail
           IN /\ last'.exc = "SamplingError"
              /\ last'.ret = NoneValue
              /\ StepsOf(last'.trace) = SubSeq(FitOrder, 1, k)
              /\ self'.draws = self.draws + (k - 2)
              /\ k = 2 => self'.idata = self.idata
              /\ k > 2 => /\ "posterior" \in GroupNames(self'.idata)
                          /\ \A g \in self'.idata.groups :
                                g.name = "posterior" => g.draw = self.draws + 1
                          /\ "posterior_predictive" \notin GroupNames(self'.idata)
              /\ k = 3 => GroupNames(self'.idata) \cap Sampled = {"posterior"}
              /\ k = 4 => GroupNames(self'.idata) \cap Sampled =
                             {"posterior", "prior", "prior_predictive"} ]_vars

C9_Witness ==
    /\ last.op = "fit" /\ last.fail = "sample_posterior_predictive"
    /\ last.exc = "SamplingError"
    /\ self.cls = "InstrumentalVariableRegression"
    /\ "prior" \in GroupNames(self.idata)
    /\ "posterior_predictive" \notin GroupNames(self.idata)

\* C10: idata is None at construction and is first set by a fit that
\* completes posterior sampling; predict and score never change idata;
\* sample_kwargs is the constructor's value ({} when None was given) and no
\* call changes it.
C10_OnlyFitWritesFittedState ==
    /\ self.idata = NoneValue
    /\ self.sample_kwargs = KwargsFor(given)
    /\ [][ /\ self'.sample_kwargs = self.sample_kwargs
           /\ self'.sample_kwargs = KwargsFor(given')
           /\ ~IsFitStep => self'.idata = self.idata
           /\ (self.idata = NoneValue /\ self'.idata # NoneValue)
                => /\ IsFitStep
                   /\ \E i \in 1..Len(last'.trace) :
                         /\ last'.trace[i].step = "sample"
                         /\ last'.trace[i].idata # NoneValue
           /\ (IsFitStep /\ \E i \in 1..Len(last'.trace) :
                               /\ last'.trace[i].step = "sample"
                               /\ last'.trace[i].idata # NoneValue)
                => self'.idata # NoneValue ]_vars

\* predict returned samples that idata does not hold.
C10_Witness ==
    /\ last.op = "predict" /\ last.exc = ""
    /\ self.sample_kwargs # EmptyDict
    /\ self.idata # NoneValue
    /\ last.ret.groups \cap self.idata.groups = {}

=============================================================================
